---- MODULE Spec2Model ----
(***************************************************************************)
(* Snabric.js: a Fabric.js canvas extended with Snap.svg images.           *)
(*                                                                         *)
(* The model follows snabric.js: the facade (Snabric), the image handle    *)
(* (Snabric.Image) and the grid (Snabric.Grid).  The browser and the two   *)
(* wrapped libraries appear only through the calls the code makes:         *)
(*   - the staging <object> element fires onload later, on the same        *)
(*     thread (ObjOnload);                                                 *)
(*   - fabric.Image.fromURL and fabric.Image#setSrc complete later         *)
(*     (FromURLDone, SetSrcDone);                                          *)
(*   - the fabric canvas is its stack of objects, bottom first (add        *)
(*     appends, remove deletes by identity, sendToBack moves to the        *)
(*     bottom, contains tests identity).                                   *)
(***************************************************************************)
EXTENDS Integers, Sequences, FiniteSets

\* Bounds of the model.
\* The bound of the model: the number of calls that create an object
\* (loadFromUrl, updateSnap, a setGridVisibility that builds a grid, and in
\* SpecBridge the direct uses of the bridge), together with the keyup events
\* delivered to the canvas.
MaxCalls == 3

\* JavaScript null / undefined, for references and absent numeric options.
Null == 0

\* The default stroke width 0.5, in tenths of a pixel (all stroke widths of
\* the model are in tenths).
DefaultStroke == 5

VARIABLES
    fCanvas,      \* this._fCanvas: the canvas's objects, bottom first
    canvasDims,   \* this._fCanvas.getWidth() / getHeight()
    imgMap,       \* this._imgMap: Snabric.Image -> fabric.Image
    grid,         \* this._grid (NoGrid when null)
    nGroups,      \* fabric.Group objects created so far (object identity)
    loads,        \* the staging <object> elements of the loadFromUrl calls
    sImgs,        \* the Snabric.Image objects created so far
    nodes,        \* the SVG elements (DOM trees) created so far
    fImgs,        \* the fabric.Image objects created so far
    pending,      \* fromURL / setSrc completions in flight
    nSyncs,       \* _updateCanvasImage calls so far (issue order)
    calls,        \* the invocations of onUpdate / onLoad callbacks, in order
    nCalls,       \* object-creating calls so far
    removed,      \* the images remove(img) has been called with (history)
    handleKeyPress, \* this.handleKeyPress: the function assigned
    nKeyUps,      \* keyup events delivered to the canvas so far
    keyLog        \* the invocations of key press handlers, in order

vars == <<fCanvas, canvasDims, imgMap, grid, nGroups, loads, sImgs, nodes,
          fImgs, pending, nSyncs, calls, nCalls, removed, handleKeyPress,
          nKeyUps, keyLog>>

imageVars == <<imgMap, loads, sImgs, nodes, fImgs, pending, nSyncs, calls,
               removed>>
keyVars == <<handleKeyPress, nKeyUps, keyLog>>

-----------------------------------------------------------------------------
(* Values *)

\* Canvas sizes the caller may give the fabric canvas.
Dims == { [width |-> 25, height |-> 15],
          [width |-> 20, height |-> 20] }

\* URLs: a well-formed SVG, a resource that loads but has no SVG document,
\* and a resource whose load never completes.
GoodUrl == "good.svg"
BadUrl == "bad.svg"
DeadUrl == "dead.svg"

\* obj.getSVGDocument(): the parsed document (its root element), or null.
NullDoc == [width |-> 0, height |-> 0, body |-> -1]
GetSVGDocument(url) ==
    IF url = GoodUrl THEN [width |-> 2, height |-> 1, body |-> 0]
    ELSE NullDoc

\* Whether the <object> element ever fires onload for this URL.
FiresOnload(url) == url # DeadUrl

\* The callbacks a sync is started with, and the arguments of the
\* loadFromUrl calls of the model: the caller passes an onLoad callback, as
\* in the README (syncs with a null callback come from updateSnap).
NoCb == [fn |-> "null", id |-> 0]
OnLoadCb(l) == [fn |-> "onLoad", id |-> l]
OnDoneCb(k) == [fn |-> "onDone", id |-> k]
LoadInputs == { [url |-> GoodUrl, onLoad |-> TRUE],
                [url |-> BadUrl, onLoad |-> TRUE],
                [url |-> DeadUrl, onLoad |-> TRUE] }

\* Canvas objects, by identity.
ImageObj(f) == [type |-> "image", id |-> f]
GroupObj(g) == [type |-> "group", id |-> g]
SnabricObj(i) == [type |-> "snabric", id |-> i]

-----------------------------------------------------------------------------
(* fabric.Canvas collection operations used by the code *)

RECURSIVE SeqRemove(_, _)
SeqRemove(s, x) ==
    IF s = << >> THEN << >>
    ELSE IF Head(s) = x THEN Tail(s)
    ELSE << Head(s) >> \o SeqRemove(Tail(s), x)

CanvasAdd(objs, o) == Append(objs, o)
\* A variant that clears the canvas.
CanvasRemoveAll(objs, o) == << >>

CanvasRemove(objs, o) == SeqRemove(objs, o)
CanvasContains(objs, o) == \E k \in 1..Len(objs) : objs[k] = o
\* A variant that leaves the added object on top.
SendToBackSkipped(objs, o) == objs

SendToBack(objs, o) == IF CanvasContains(objs, o)
                       THEN << o >> \o SeqRemove(objs, o)
                       ELSE objs

\* A variant of Map.set that forgets the other keys.
MapSetAlone(map, key, val) == [k \in {key} |-> val]

\* Map.get / Map.set on this._imgMap.
MapGet(map, key) == IF key \in DOMAIN map THEN map[key] ELSE Null
MapSet(map, key, val) == [k \in DOMAIN map \cup {key} |->
                            IF k = key THEN val ELSE map[k]]

\* JavaScript a || b on numbers and on strings.
OrNum(a, b) == IF a = 0 THEN b ELSE a
OrStr(a, b) == IF a = "" THEN b ELSE a

-----------------------------------------------------------------------------
(* Snabric.Image *)

\* snapObj.toString() and d.innerHTML = ...; d.children[0]: the markup of an
\* element, and the element parsed back from markup.
ToString(doc) == << "svg", doc.width, doc.height, doc.body >>

\* A variant that parses the root element without its content.
ParseFirstChildEmpty(markup) ==
    [width |-> markup[2], height |-> markup[3], body |-> 0]

ParseFirstChild(markup) ==
    [width |-> markup[2], height |-> markup[3], body |-> markup[4]]

\* A variant that draws nothing on the canvas before it reads the data URL.
GetDataUrlBlank(doc) ==
    [width |-> doc.width, height |-> doc.height, pixels |-> -1]

\* getDataUrl: a raster of the declared width and height showing the document.
GetDataUrl(doc) ==
    [width |-> doc.width, height |-> doc.height, pixels |-> doc.body]
NoUrl == [width |-> 0, height |-> 0, pixels |-> -1]

\* The contents an SVG element's body may have after a Snap manipulation.
Bodies == {0, 1}

\* The image handles the caller holds: those a callback delivered, and those
\* the caller constructed itself.
Known(i) == \/ \E k \in DOMAIN calls : calls[k].sImg = i
            \/ sImgs[i].load = Null

\* getSvgElement(), getSnap() and getFImg().
GetSvgElement(i) == nodes[sImgs[i].svgElt]
GetSnap(i) == sImgs[i].snap
GetFImg(i) == MapGet(imgMap, i)

-----------------------------------------------------------------------------
(* Snabric.prototype._updateCanvasImage *)

\* A variant that never looks the image up and always adds a new fabric image.
UpdateCanvasImageAlwaysAdd(map, sImg, url, onUpdate, seq) ==
    [seq |-> seq, api |-> "fromURL", sImg |-> sImg, url |-> url,
     onUpdate |-> onUpdate, fImg |-> Null]

\* The synchronous part: look the image up and start fromURL or setSrc on the
\* data URL of the image's current document.
UpdateCanvasImage(map, sImg, url, onUpdate, seq) ==
    LET fImg == MapGet(map, sImg) IN
    IF fImg = Null
    THEN [seq |-> seq, api |-> "fromURL", sImg |-> sImg, url |-> url,
          onUpdate |-> onUpdate, fImg |-> Null]
    ELSE [seq |-> seq, api |-> "setSrc", sImg |-> sImg, url |-> url,
          onUpdate |-> onUpdate, fImg |-> fImg]

\* What a callback sees of the bridge when it is invoked with sImg.
Observation(st, onUpdate, sImg) ==
    LET f == MapGet(st.imgMap, sImg) IN
    [cb |-> onUpdate, sImg |-> sImg, fImg |-> f,
     onCanvas |-> f # Null /\ CanvasContains(st.fCanvas, ImageObj(f)),
     src |-> IF f = Null THEN NoUrl ELSE st.fImgs[f].src,
     rendered |-> IF f = Null THEN NoUrl ELSE st.fImgs[f].rendered]

\* if (onUpdate != null) { onUpdate(sImg); }
InvokeOnUpdate(st, onUpdate, sImg) ==
    IF onUpdate # NoCb
    THEN [st EXCEPT !.calls = Append(@, Observation(st, onUpdate, sImg))]
    ELSE st

\* A variant that records the new fabric image without adding it to the
\* canvas.
FromURLCallbackNoAdd(st, t, f) ==
    LET s2 == [st EXCEPT !.imgMap = MapSet(@, t.sImg, f)]
    IN  InvokeOnUpdate(s2, t.onUpdate, t.sImg)

\* The fromURL callback: add the new fabric image f, record it, call back.
FromURLCallback(st, t, f) ==
    LET s1 == [st EXCEPT !.fCanvas = CanvasAdd(@, ImageObj(f))]
        s2 == [s1 EXCEPT !.imgMap = MapSet(@, t.sImg, f)]
    IN  InvokeOnUpdate(s2, t.onUpdate, t.sImg)

\* A variant that calls back before it renders.
SetSrcCallbackBeforeRender(st, t) ==
    LET s1 == InvokeOnUpdate(st, t.onUpdate, t.sImg)
    IN  [s1 EXCEPT !.fImgs[t.fImg].rendered = st.fImgs[t.fImg].src]

\* The setSrc callback: render the fabric image, call back.
SetSrcCallback(st, t) ==
    LET s1 == [st EXCEPT !.fImgs[t.fImg].rendered = st.fImgs[t.fImg].src]
    IN  InvokeOnUpdate(s1, t.onUpdate, t.sImg)

BridgeState == [fCanvas |-> fCanvas, imgMap |-> imgMap, fImgs |-> fImgs,
                calls |-> calls]

\* fabric.Image.fromURL completes: fabric creates the image and runs the
\* callback.
FromURLDone(t) ==
    /\ t \in pending
    /\ t.api = "fromURL"
    /\ LET f == Len(fImgs) + 1
           st == [BridgeState EXCEPT !.fImgs =
                     Append(@, [src |-> t.url, rendered |-> t.url,
                                sImg |-> t.sImg])]
           new == FromURLCallback(st, t, f)
       IN  /\ fCanvas' = new.fCanvas
           /\ imgMap' = new.imgMap
           /\ fImgs' = new.fImgs
           /\ calls' = new.calls
    /\ pending' = pending \ {t}
    /\ UNCHANGED <<canvasDims, grid, nGroups, loads, sImgs, nodes, nSyncs,
                   nCalls, removed>>
    /\ UNCHANGED keyVars

\* fabric.Image#setSrc completes: fabric replaces the element and runs the
\* callback.
SetSrcDone(t) ==
    /\ t \in pending
    /\ t.api = "setSrc"
    /\ LET st == [BridgeState EXCEPT !.fImgs[t.fImg].src = t.url]
           new == SetSrcCallback(st, t)
       IN  /\ fCanvas' = new.fCanvas
           /\ imgMap' = new.imgMap
           /\ fImgs' = new.fImgs
           /\ calls' = new.calls
    /\ pending' = pending \ {t}
    /\ UNCHANGED <<canvasDims, grid, nGroups, loads, sImgs, nodes, nSyncs,
                   nCalls, removed>>
    /\ UNCHANGED keyVars

-----------------------------------------------------------------------------
(* Snabric.prototype.loadFromUrl *)

\* loadFromUrl(url, onLoad): create the staging <object> and append it to
\* the container.
LoadFromUrl(in) ==
    /\ nCalls < MaxCalls
    /\ loads' = Append(loads, [url |-> in.url, onLoad |-> in.onLoad,
                               state |-> "staged"])
    /\ nCalls' = nCalls + 1
    /\ UNCHANGED <<fCanvas, canvasDims, imgMap, grid, nGroups, sImgs, nodes,
                   fImgs, pending, nSyncs, calls,
                   removed>>
    /\ UNCHANGED keyVars

\* A variant without the null test.
HasDocumentAlways(svgDoc) == TRUE

\* if (svgDoc != null)
HasDocument(svgDoc) == svgDoc # NullDoc

\* obj.onload: wrap the document in a Snabric.Image and sync it; with no
\* document, do nothing.
ObjOnload(l) ==
    /\ l \in DOMAIN loads
    /\ loads[l].state = "staged"
    /\ FiresOnload(loads[l].url)
    /\ LET svgDoc == GetSVGDocument(loads[l].url) IN
       IF HasDocument(svgDoc)
       THEN LET n == Len(nodes) + 1
                i == Len(sImgs) + 1
                onLoad == IF loads[l].onLoad THEN OnLoadCb(l) ELSE NoCb
            IN  /\ nodes' = Append(nodes, svgDoc)
                /\ sImgs' = Append(sImgs, [svgElt |-> n, snap |-> n,
                                           load |-> l])
                /\ pending' = pending \cup
                      { UpdateCanvasImage(imgMap, i, GetDataUrl(svgDoc),
                                          onLoad, nSyncs + 1) }
                /\ nSyncs' = nSyncs + 1
                /\ loads' = [loads EXCEPT ![l].state = "removed"]
       ELSE /\ loads' = [loads EXCEPT ![l].state = "empty"]
            /\ UNCHANGED <<nodes, sImgs, pending, nSyncs>>
    /\ UNCHANGED <<fCanvas, canvasDims, imgMap, grid, nGroups, fImgs, calls,
                   nCalls,
                   removed>>
    /\ UNCHANGED keyVars

-----------------------------------------------------------------------------
(* Snabric.Image.prototype.updateSnap, and the caller's Snap manipulation *)

\* updateSnap(snapObj) as the README uses it: the caller manipulates the
\* image's Snap handle (snap.text(...), ...), which changes the element the
\* handle wraps in place to body b, and passes the handle.  updateSnap
\* replaces the image's element by a parse of the handle's markup and calls
\* this._onUpdate(this).
UpdateSnap(i, b) ==
    /\ i \in DOMAIN sImgs
    /\ Known(i)
    /\ nCalls < MaxCalls
    /\ LET edited == [nodes EXCEPT ![GetSnap(i)].body = b]
           elt == ParseFirstChild(ToString(edited[GetSnap(i)]))
           n == Len(nodes) + 1
       IN  /\ nodes' = Append(edited, elt)
           /\ sImgs' = [sImgs EXCEPT ![i].svgElt = n]
           /\ pending' = pending \cup
                 { UpdateCanvasImage(imgMap, i, GetDataUrl(elt), NoCb,
                                     nSyncs + 1) }
    /\ nSyncs' = nSyncs + 1
    /\ nCalls' = nCalls + 1
    /\ UNCHANGED <<fCanvas, canvasDims, imgMap, grid, nGroups, loads, fImgs,
                   calls,
                   removed>>
    /\ UNCHANGED keyVars

-----------------------------------------------------------------------------
(* Snabric.prototype.remove *)

\* The object remove(img) hands to the canvas.
RemoveTarget(map, img) == SnabricObj(img)

\* remove(img): this._fCanvas.remove(img).
Remove(i) ==
    /\ i \in DOMAIN sImgs
    /\ Known(i)
    /\ fCanvas' = CanvasRemove(fCanvas, RemoveTarget(imgMap, i))
    /\ removed' = removed \cup {i}
    /\ UNCHANGED <<canvasDims, grid, nGroups, nCalls, imgMap, loads, sImgs,
                   nodes, fImgs, pending, nSyncs, calls>>
    /\ UNCHANGED keyVars

-----------------------------------------------------------------------------
(* Direct use of the bridge (SpecBridge) *)

\* new Snabric.Image(svgElt, onUpdate) by the caller, onUpdate the bridge's
\* _updateCanvasImage as in loadFromUrl.
NewImage ==
    /\ nCalls < MaxCalls
    /\ LET n == Len(nodes) + 1 IN
       /\ nodes' = Append(nodes, GetSVGDocument(GoodUrl))
       /\ sImgs' = Append(sImgs, [svgElt |-> n, snap |-> n, load |-> Null])
    /\ nCalls' = nCalls + 1
    /\ UNCHANGED <<fCanvas, canvasDims, imgMap, grid, nGroups, loads, fImgs,
                   pending, nSyncs, calls,
                   removed>>
    /\ UNCHANGED keyVars

\* _updateCanvasImage(sImg, onUpdate) called with a callback of the caller.
Sync(i) ==
    /\ i \in DOMAIN sImgs
    /\ Known(i)
    /\ nCalls < MaxCalls
    /\ pending' = pending \cup
          { UpdateCanvasImage(imgMap, i, GetDataUrl(GetSvgElement(i)),
                              OnDoneCb(nSyncs + 1), nSyncs + 1) }
    /\ nSyncs' = nSyncs + 1
    /\ nCalls' = nCalls + 1
    /\ UNCHANGED <<fCanvas, canvasDims, imgMap, grid, nGroups, loads, sImgs,
                   nodes, fImgs, calls,
                   removed>>
    /\ UNCHANGED keyVars

-----------------------------------------------------------------------------
(* Snabric.Grid *)

\* The options objects the caller passes to setGridVisibility; an absent
\* numeric option is Null, an absent colour is "" (|| treats an absent
\* option and 0 or "" alike).  The first stands for both undefined and {}.
GridOptions ==
    { [width |-> Null, height |-> Null, tileSize |-> Null,
       strokeColor |-> "", stroke |-> Null],
      [width |-> Null, height |-> Null, tileSize |-> 10,
       strokeColor |-> "", stroke |-> Null],
      [width |-> 7, height |-> 40, tileSize |-> 0,
       strokeColor |-> "red", stroke |-> 20] }

Line(x1, y1, x2, y2, color, strokeWidth) ==
    [x1 |-> x1, y1 |-> y1, x2 |-> x2, y2 |-> y2, stroke |-> color,
     strokeWidth |-> strokeWidth]

\* A variant whose loop runs while y <= canvasHeight.
RECURSIVE HorizontalLinesInclusive(_, _, _, _, _, _)
HorizontalLinesInclusive(y, tileSize, canvasWidth, canvasHeight, color, strokeWidth) ==
    IF y <= canvasHeight
    THEN << Line(0, y, canvasWidth, y, color, strokeWidth) >> \o
         HorizontalLinesInclusive(y + tileSize, tileSize, canvasWidth,
                                  canvasHeight, color, strokeWidth)
    ELSE << >>

\* for (var y = tileSize; y < canvasHeight; y += tileSize)
RECURSIVE HorizontalLines(_, _, _, _, _, _)
HorizontalLines(y, tileSize, canvasWidth, canvasHeight, color, strokeWidth) ==
    IF y < canvasHeight
    THEN << Line(0, y, canvasWidth, y, color, strokeWidth) >> \o
         HorizontalLines(y + tileSize, tileSize, canvasWidth, canvasHeight,
                         color, strokeWidth)
    ELSE << >>

\* A variant whose loop is bounded by the height, as the loop above it.
RECURSIVE VerticalLinesToHeight(_, _, _, _, _, _)
VerticalLinesToHeight(x, tileSize, canvasWidth, canvasHeight, color, strokeWidth) ==
    IF x < canvasHeight
    THEN << Line(x, 0, x, canvasHeight, color, strokeWidth) >> \o
         VerticalLinesToHeight(x + tileSize, tileSize, canvasWidth,
                               canvasHeight, color, strokeWidth)
    ELSE << >>

\* for (var x = tileSize; x < canvasWidth; x += tileSize)
RECURSIVE VerticalLines(_, _, _, _, _, _)
VerticalLines(x, tileSize, canvasWidth, canvasHeight, color, strokeWidth) ==
    IF x < canvasWidth
    THEN << Line(x, 0, x, canvasHeight, color, strokeWidth) >> \o
         VerticalLines(x + tileSize, tileSize, canvasWidth, canvasHeight,
                       color, strokeWidth)
    ELSE << >>

\* options['tileSize'] || 1
TileSize(options) == OrNum(options.tileSize, 1)

\* A variant that records no dimensions.
ConstructGroupUnrecorded(options) ==
    LET canvasWidth == OrNum(options.width, 0)
        canvasHeight == OrNum(options.height, 0)
        tileSize == TileSize(options)
        strokeColor == OrStr(options.strokeColor, "green")
        strokeWidth == OrNum(options.stroke, DefaultStroke)
    IN  [lines |-> HorizontalLines(tileSize, tileSize, canvasWidth,
                                   canvasHeight, strokeColor, strokeWidth)
                   \o VerticalLines(tileSize, tileSize, canvasWidth,
                                    canvasHeight, strokeColor, strokeWidth),
         dimensions |-> [width |-> 0, height |-> 0]]

\* _constructGroup: the lines of the group, and the dimensions recorded.
ConstructGroup(options) ==
    LET canvasWidth == OrNum(options.width, 0)
        canvasHeight == OrNum(options.height, 0)
        tileSize == TileSize(options)
        strokeColor == OrStr(options.strokeColor, "green")
        strokeWidth == OrNum(options.stroke, DefaultStroke)
    IN  [lines |-> HorizontalLines(tileSize, tileSize, canvasWidth,
                                   canvasHeight, strokeColor, strokeWidth)
                   \o VerticalLines(tileSize, tileSize, canvasWidth,
                                    canvasHeight, strokeColor, strokeWidth),
         dimensions |-> [width |-> canvasWidth, height |-> canvasHeight]]

\* new Snabric.Grid(options), its fabric.Group being object g.
NewGrid(options, g) ==
    LET c == ConstructGroup(options) IN
    [group |-> g, options |-> options, lines |-> c.lines,
     dimensions |-> c.dimensions]

\* this._grid == null
NoGrid == [group |-> Null]

\* A variant that keeps a width and height the caller supplied.
WithCanvasSizeUnlessGiven(options, dims) ==
    [options EXCEPT !.width = OrNum(options.width, dims.width),
                    !.height = OrNum(options.height, dims.height)]

\* Grid options as setGridVisibility passes them on: width and height are
\* the canvas's.
WithCanvasSize(options, dims) ==
    [options EXCEPT !.width = dims.width, !.height = dims.height]

\* A variant that drops the grid on every enable.
DimensionsChangedAlways(g, dims) == TRUE

\* Whether the grid is to be dropped: its dimensions are not the canvas's.
DimensionsChanged(g, dims) ==
    g.dimensions.width # dims.width \/ g.dimensions.height # dims.height

\* A variant that draws without the test.
NeedsDrawAlways(objs, obj) == TRUE

\* if (!this._fCanvas.contains(grid))
NeedsDraw(objs, obj) == ~CanvasContains(objs, obj)

\* setGridVisibility(isVisible, options)
SetGridVisibility(isVisible, options) ==
    IF isVisible
    THEN LET drop == grid # NoGrid /\ DimensionsChanged(grid, canvasDims)
             c1 == IF drop THEN CanvasRemove(fCanvas, GroupObj(grid.group))
                   ELSE fCanvas
             g1 == IF drop THEN NoGrid ELSE grid
             build == g1 = NoGrid
             g2 == IF build
                   THEN NewGrid(WithCanvasSize(options, canvasDims),
                                nGroups + 1)
                   ELSE g1
             obj == GroupObj(g2.group)
         IN  /\ build => nCalls < MaxCalls
             /\ grid' = g2
             /\ nGroups' = IF build THEN nGroups + 1 ELSE nGroups
             /\ nCalls' = IF build THEN nCalls + 1 ELSE nCalls
             /\ fCanvas' = IF NeedsDraw(c1, obj)
                           THEN SendToBack(CanvasAdd(c1, obj), obj)
                           ELSE c1
             /\ UNCHANGED canvasDims
             /\ UNCHANGED imageVars
             /\ UNCHANGED keyVars
    ELSE /\ fCanvas' = IF grid # NoGrid
                       THEN CanvasRemove(fCanvas, GroupObj(grid.group))
                       ELSE fCanvas
         /\ UNCHANGED <<canvasDims, grid, nGroups, nCalls>>
         /\ UNCHANGED imageVars
         /\ UNCHANGED keyVars

\* The caller resizes the canvas: getCanvas().setWidth / setHeight.
Resize(d) ==
    /\ d # canvasDims
    /\ canvasDims' = d
    /\ UNCHANGED <<fCanvas, grid, nGroups, nCalls>>
    /\ UNCHANGED imageVars
    /\ UNCHANGED keyVars

-----------------------------------------------------------------------------
(* Key events *)

\* The functions handleKeyPress can hold: the no-op the constructor assigns
\* and the functions of the caller.
DefaultHandler == "noop"
Handlers == {DefaultHandler, "f", "g"}

\* The caller assigns the hook: snabric.handleKeyPress = h.
AssignHandler(h) ==
    /\ h # handleKeyPress
    /\ handleKeyPress' = h
    /\ UNCHANGED <<nKeyUps, keyLog>>
    /\ UNCHANGED <<fCanvas, canvasDims, grid, nGroups, nCalls>>
    /\ UNCHANGED imageVars

\* The keyup listener of the canvas with a property lookup that found the
\* function the constructor assigned.
KeyupListenerBoundAtSetup(log, fn, e) ==
    Append(log, [fn |-> DefaultHandler, e |-> e])

\* The keyup listener of the canvas: this.handleKeyPress(e), the property
\* looked up when the event arrives.
KeyupListener(log, fn, e) ==
    Append(log, [fn |-> fn, e |-> e])

\* The browser delivers a keyup event to the focused canvas.
KeyUp ==
    /\ nCalls < MaxCalls
    /\ nCalls' = nCalls + 1
    /\ nKeyUps' = nKeyUps + 1
    /\ keyLog' = KeyupListener(keyLog, handleKeyPress, nKeyUps + 1)
    /\ UNCHANGED handleKeyPress
    /\ UNCHANGED <<fCanvas, canvasDims, grid, nGroups>>
    /\ UNCHANGED imageVars

-----------------------------------------------------------------------------
(* The state machine *)

\* new Snabric(elt, options)
Init ==
    /\ fCanvas = << >>
    /\ canvasDims \in Dims
    /\ imgMap = << >>
    /\ grid = NoGrid
    /\ nGroups = 0
    /\ loads = << >>
    /\ sImgs = << >>
    /\ nodes = << >>
    /\ fImgs = << >>
    /\ pending = {}
    /\ nSyncs = 0
    /\ calls = << >>
    /\ nCalls = 0
    /\ removed = {}
    /\ handleKeyPress = DefaultHandler
    /\ nKeyUps = 0
    /\ keyLog = << >>

\* The calls of the documented interface and the completions they start.
Next ==
    \/ \E in \in LoadInputs : LoadFromUrl(in)
    \/ \E l \in 1..MaxCalls : ObjOnload(l)
    \/ \E t \in pending : FromURLDone(t)
    \/ \E t \in pending : SetSrcDone(t)
    \/ \E i \in DOMAIN sImgs, b \in Bodies : UpdateSnap(i, b)
    \/ \E i \in DOMAIN sImgs : Remove(i)
    \/ \E v \in BOOLEAN, o \in GridOptions : SetGridVisibility(v, o)
    \/ \E d \in Dims : Resize(d)

Spec == Init /\ [][Next]_vars

\* The same, with the completions the browser and fabric always deliver.
Fairness ==
    /\ \A l \in 1..MaxCalls : WF_vars(ObjOnload(l))
    /\ WF_vars(\E t \in pending : FromURLDone(t))
    /\ WF_vars(\E t \in pending : SetSrcDone(t))

FairSpec == Spec /\ Fairness

\* The same interface, and a caller that also uses the bridge directly.
NextBridge ==
    \/ Next
    \/ NewImage
    \/ \E i \in DOMAIN sImgs : Sync(i)

SpecBridge == Init /\ [][NextBridge]_vars

\* The same interface, with the key events of the canvas and a caller that
\* assigns the handleKeyPress hook.
NextKeys ==
    \/ Next
    \/ \E h \in Handlers : AssignHandler(h)
    \/ KeyUp

SpecKeys == Init /\ [][NextKeys]_vars

-----------------------------------------------------------------------------
(* Vocabulary of the properties *)

\* The positions of the canvas holding a mirror created for image i.
MirrorsOf(i) ==
    { k \in DOMAIN fCanvas :
        fCanvas[k].type = "image" /\ fImgs[fCanvas[k].id].sImg = i }

\* The positions of the canvas holding a grid group.
GroupsOnCanvas == { k \in DOMAIN fCanvas : fCanvas[k].type = "group" }

\* The invocations of the onLoad callback of loadFromUrl call l.
OnLoadCalls(l) == { k \in DOMAIN calls : calls[k].cb = OnLoadCb(l) }

\* Image i was handed to an onLoad callback.
Delivered(i) == \E k \in DOMAIN calls :
                    calls[k].sImg = i /\ calls[k].cb.fn = "onLoad"

\* The mirror of image i is the one mirror of i on the canvas.
OneMirror(i) ==
    /\ GetFImg(i) # Null
    /\ Cardinality(MirrorsOf(i)) = 1
    /\ \A k \in MirrorsOf(i) : fCanvas[k] = ImageObj(GetFImg(i))

GridOnCanvas == grid # NoGrid /\ CanvasContains(fCanvas, GroupObj(grid.group))
SameDimensions == grid # NoGrid /\ grid.dimensions = canvasDims
Enable == \E o \in GridOptions : SetGridVisibility(TRUE, o)
Disable == \E o \in GridOptions : SetGridVisibility(FALSE, o)

-----------------------------------------------------------------------------
(* C1 *)

C1_Safe ==
    \A l \in DOMAIN loads :
        /\ Cardinality(OnLoadCalls(l)) <= 1
        /\ \A k \in OnLoadCalls(l) :
              /\ sImgs[calls[k].sImg].load = l
              /\ OneMirror(calls[k].sImg)

C1_Called(l) ==
    /\ l \in DOMAIN loads
    /\ Cardinality(OnLoadCalls(l)) = 1

C1_WellFormed(l) ==
    /\ l \in DOMAIN loads
    /\ loads[l].url = GoodUrl
    /\ loads[l].onLoad

\* C1: a loadFromUrl call on a well-formed SVG URL eventually has its onLoad
\* invoked (again and again a state is reached in which every well-formed
\* load made so far has called back), never more than once and with the
\* image of that load, and in every state from then on the canvas holds
\* exactly one mirror created for that image, the one getFImg returns.
C1_LoadYieldsOneMirror ==
    /\ []C1_Safe
    /\ []<>(\A l \in DOMAIN loads : C1_WellFormed(l) => C1_Called(l))

\* A load has called back and its mirror is on the canvas.
C1_Witness ==
    \E l \in DOMAIN loads :
        /\ C1_WellFormed(l)
        /\ C1_Called(l)
        /\ \A k \in OnLoadCalls(l) : OneMirror(calls[k].sImg)

-----------------------------------------------------------------------------
(* C2 *)

C2_AtMostOne ==
    \A i \in DOMAIN sImgs :
        Delivered(i) => Cardinality(MirrorsOf(i)) <= 1

C2_SameMirror ==
    \A i \in DOMAIN sImgs :
        Delivered(i) => MapGet(imgMap', i) = MapGet(imgMap, i)

\* C2: for an image handed to onLoad, however many updateSnap calls are made
\* and however their completions interleave, the canvas never holds more
\* than one mirror of the image, and no step changes what getFImg returns
\* for it.
C2_EditsKeepOneMirror ==
    /\ []C2_AtMostOne
    /\ [][C2_SameMirror]_vars

\* Two updateSnap syncs of a delivered image have completed.
C2_Witness ==
    \E i \in DOMAIN sImgs :
        /\ Delivered(i)
        /\ nSyncs = 3
        /\ pending = {}
        /\ Len(nodes) = 3
        /\ Cardinality(MirrorsOf(i)) = 1

-----------------------------------------------------------------------------
(* C3 *)

\* C3: under any interleaving of syncs and their completions, the canvas
\* holds at most one mirror created for an image, and the table maps the
\* image to the mirror on the canvas.
C3_AtMostOneMirrorPerImage ==
    \A i \in DOMAIN sImgs :
        /\ Cardinality(MirrorsOf(i)) <= 1
        /\ \A k \in MirrorsOf(i) : fCanvas[k] = ImageObj(GetFImg(i))

-----------------------------------------------------------------------------
(* C4 *)

\* C4: once remove(img) has been called for an image, no mirror of that
\* image is on the canvas.
C4_RemoveDetaches ==
    \A i \in removed : MirrorsOf(i) = {}

-----------------------------------------------------------------------------
(* C5 *)

C5_Failed(l) == l \in DOMAIN loads /\ loads[l].url # GoodUrl

C5_NoTrace ==
    \A l \in DOMAIN loads :
        C5_Failed(l) =>
            /\ OnLoadCalls(l) = {}
            /\ \A i \in DOMAIN sImgs : sImgs[i].load # l
            /\ \A t \in pending : t.onUpdate # OnLoadCb(l)

C5_OnloadWithoutDocument ==
    \E l \in DOMAIN loads :
        /\ C5_Failed(l)
        /\ loads[l].state = "staged"
        /\ loads'[l].state # "staged"

\* C5: a load whose document is null or whose onload never fires has no
\* effect: its onLoad is never invoked, no image is created for it, no sync
\* is started for it, and the onload step of such a load leaves the canvas,
\* the table, the images and the mirrors as they were.
C5_FailedLoadIsSilent ==
    /\ []C5_NoTrace
    /\ [][C5_OnloadWithoutDocument =>
            UNCHANGED <<fCanvas, imgMap, sImgs, nodes, fImgs, pending,
                        calls>>]_vars

\* The onload of a document-less load has run, and another load never
\* completes.
C5_Witness ==
    /\ \E l \in DOMAIN loads : loads[l].url = BadUrl /\ loads[l].state = "empty"
    /\ \E l \in DOMAIN loads : loads[l].url = DeadUrl

-----------------------------------------------------------------------------
(* C6 *)

\* C6: a callback is invoked only with the effect of its sync in place: at
\* the call the table maps the image to a mirror that is on the canvas and
\* has been drawn with its current source; in every later state getFImg of
\* the image is defined and on the canvas; and a null callback is never
\* invoked.
C6_CallbackAfterEffect ==
    \A k \in DOMAIN calls :
        /\ calls[k].cb # NoCb
        /\ calls[k].fImg # Null
        /\ calls[k].onCanvas
        /\ calls[k].rendered = calls[k].src
        /\ GetFImg(calls[k].sImg) # Null
        /\ CanvasContains(fCanvas, ImageObj(GetFImg(calls[k].sImg)))

\* A later sync of an already mirrored image has called back, with a raster
\* other than the first one, and a sync with a null callback has completed.
C6_Witness ==
    /\ \E j, k \in DOMAIN calls :
          /\ j < k
          /\ calls[j].sImg = calls[k].sImg
          /\ calls[k].cb.fn = "onDone"
          /\ calls[k].src # calls[j].src
    /\ nSyncs = 3
    /\ pending = {}

-----------------------------------------------------------------------------
(* C7 *)

C7_AtMostOneGroup == Cardinality(GroupsOnCanvas) <= 1

C7_EnableShown == GridOnCanvas /\ SameDimensions /\ Enable

\* C7: the canvas never holds more than one grid group, and enabling the
\* grid while it is shown and the canvas has the grid's dimensions leaves
\* the grid object and the canvas as they are.
C7_EnableIsIdempotent ==
    /\ []C7_AtMostOneGroup
    /\ [][C7_EnableShown =>
            /\ grid' = grid
            /\ nGroups' = nGroups
            /\ fCanvas' = fCanvas]_vars

\* The grid is shown, at the canvas's dimensions, below a mirror: the state
\* in which enabling it again must change nothing.
C7_Witness ==
    /\ GridOnCanvas
    /\ SameDimensions
    /\ Len(fCanvas) = 2

-----------------------------------------------------------------------------
(* C8 *)

\* The horizontal and the vertical lines of a grid.
HorizontalCount(g) ==
    Cardinality({ k \in DOMAIN g.lines : g.lines[k].y1 = g.lines[k].y2 })
VerticalCount(g) ==
    Cardinality({ k \in DOMAIN g.lines : g.lines[k].x1 = g.lines[k].x2 })

C8_EnableAfterResize ==
    /\ grid # NoGrid
    /\ grid.dimensions # canvasDims
    /\ Enable

C8_Rebuilt ==
    /\ grid' # NoGrid
    /\ grid'.group # grid.group
    /\ ~CanvasContains(fCanvas', GroupObj(grid.group))
    /\ CanvasContains(fCanvas', GroupObj(grid'.group))
    /\ grid'.dimensions = canvasDims'
    /\ canvasDims' = canvasDims

\* C8 as stated: enabling after a change of the canvas's dimensions replaces
\* the grid by one of the new dimensions with floor(height / tileSize)
\* horizontal and floor(width / tileSize) vertical lines.
C8_FloorCounts ==
    [][C8_EnableAfterResize =>
         /\ C8_Rebuilt
         /\ HorizontalCount(grid') =
               canvasDims.height \div TileSize(grid'.options)
         /\ VerticalCount(grid') =
               canvasDims.width \div TileSize(grid'.options)]_vars

\* C8, amended: enabling after a change of the canvas's dimensions removes
\* the old grid from the canvas and replaces it by a new grid object of the
\* new dimensions, which has one horizontal line per positive multiple of
\* tileSize below the height and one vertical line per positive multiple
\* below the width: floor((height - 1) / tileSize) and
\* floor((width - 1) / tileSize) lines.
C8_RebuildCounts ==
    [][C8_EnableAfterResize =>
         /\ C8_Rebuilt
         /\ HorizontalCount(grid') =
               (canvasDims.height - 1) \div TileSize(grid'.options)
         /\ VerticalCount(grid') =
               (canvasDims.width - 1) \div TileSize(grid'.options)]_vars

\* A second grid has been built, for dimensions that are multiples of its
\* tile size.
C8_Witness ==
    /\ nGroups = 2
    /\ GridOnCanvas
    /\ SameDimensions
    /\ TileSize(grid.options) = 10
    /\ grid.dimensions.width % 10 = 0
    /\ VerticalCount(grid) = 1

-----------------------------------------------------------------------------
(* C9 *)

C9_EnableCached == grid # NoGrid /\ ~GridOnCanvas /\ SameDimensions /\ Enable

\* C9: disabling takes the grid group off the canvas and keeps the grid;
\* enabling a grid that is kept, off the canvas and of the canvas's
\* dimensions puts that same group back and builds nothing.
C9_DisableKeepsGrid ==
    /\ [][(grid # NoGrid /\ Disable) =>
            /\ grid' = grid
            /\ nGroups' = nGroups
            /\ ~CanvasContains(fCanvas', GroupObj(grid.group))]_vars
    /\ [][C9_EnableCached =>
            /\ grid' = grid
            /\ nGroups' = nGroups
            /\ CanvasContains(fCanvas', GroupObj(grid.group))
            /\ Cardinality(GroupsOnCanvas') = 1]_vars

\* A grid that was built and shown is off the canvas and still kept, while
\* a mirror is on the canvas.
C9_Witness ==
    /\ grid # NoGrid
    /\ ~GridOnCanvas
    /\ SameDimensions
    /\ Len(fCanvas) = 1

-----------------------------------------------------------------------------
(* C10 *)

Segment(l) == << l.x1, l.y1, l.x2, l.y2 >>

\* The positive multiples of t below d.
Multiples(t, d) == { m \in 1..d : m % t = 0 /\ m < d }

\* The tile size of a grid built from these options: 1 when absent or 0.
C10_T(options) ==
    IF options.tileSize = Null \/ options.tileSize = 0 THEN 1
    ELSE options.tileSize

C10_Layout(g) ==
    LET W == g.dimensions.width
        H == g.dimensions.height
        T == C10_T(g.options)
    IN  /\ { Segment(g.lines[k]) : k \in DOMAIN g.lines } =
             { << 0, y, W, y >> : y \in Multiples(T, H) } \cup
             { << x, 0, x, H >> : x \in Multiples(T, W) }
        /\ Len(g.lines) =
             Cardinality(Multiples(T, H)) + Cardinality(Multiples(T, W))

C10_Example(g) ==
    (g.options.tileSize = 10 /\ g.dimensions.width = 25
                             /\ g.dimensions.height = 15) =>
        { Segment(g.lines[k]) : k \in DOMAIN g.lines } =
            { << 10, 0, 10, 15 >>, << 20, 0, 20, 15 >>, << 0, 10, 25, 10 >> }

\* C10: a built grid consists exactly of one horizontal segment (0,y)-(W,y)
\* per multiple y of the tile size below H and one vertical segment
\* (x,0)-(x,H) per multiple x below W, the tile size being 1 when the option
\* is absent or 0; for tile size 10 on a 25 x 15 canvas these are the
\* verticals at 10 and 20 and the horizontal at 10.
C10_GridLayout ==
    grid # NoGrid => C10_Layout(grid) /\ C10_Example(grid)

\* The grid of the example has been built.
C10_Witness ==
    /\ grid # NoGrid
    /\ grid.options.tileSize = 10
    /\ grid.dimensions = [width |-> 25, height |-> 15]
    /\ Len(grid.lines) = 3

-----------------------------------------------------------------------------
(* C11 *)

C11_Builds == grid' # NoGrid /\ (grid = NoGrid \/ grid'.group # grid.group)

\* C11: a grid that setGridVisibility builds is built for, and records, the
\* canvas's current width and height whatever width and height the options
\* carry, and after every setGridVisibility(true, ...) step the grid's
\* recorded dimensions are the canvas's dimensions.
C11_GridUsesCanvasSize ==
    /\ [][C11_Builds =>
            /\ grid'.dimensions = canvasDims
            /\ grid'.options.width = canvasDims.width
            /\ grid'.options.height = canvasDims.height
            /\ \A k \in DOMAIN grid'.lines :
                  /\ grid'.lines[k].x2 <= canvasDims.width
                  /\ grid'.lines[k].y2 <= canvasDims.height]_vars
    /\ [][Enable => grid' # NoGrid /\ grid'.dimensions = canvasDims']_vars

\* A grid has been built from options that carry a width and a height of
\* their own.
C11_Witness ==
    /\ grid # NoGrid
    /\ grid.options.strokeColor = "red"
    /\ grid.dimensions = canvasDims
    /\ grid.dimensions.width # 7

-----------------------------------------------------------------------------
(* Key events *)

\* C12: every keyup event delivered to the canvas invokes the function
\* handleKeyPress holds at that moment, exactly once and with that event:
\* the log of invocations has one entry per delivered event, in delivery
\* order, a keyup step appends the invocation of the current function to it
\* and no other step invokes a handler; so a function assigned after
\* construction serves every later keyup and a replaced one serves none.
C12_KeyUpStep == nKeyUps' = nKeyUps + 1
C12_OncePerEvent ==
    /\ Len(keyLog) = nKeyUps
    /\ \A k \in DOMAIN keyLog : keyLog[k].e = k
C12_KeyUpInvokesCurrent ==
    /\ [](C12_OncePerEvent)
    /\ [][C12_KeyUpStep =>
            /\ Len(keyLog') = Len(keyLog) + 1
            /\ SubSeq(keyLog', 1, Len(keyLog)) = keyLog
            /\ keyLog'[Len(keyLog')] = [fn |-> handleKeyPress, e |-> nKeyUps']
            /\ handleKeyPress' = handleKeyPress]_vars
    /\ [][~C12_KeyUpStep => keyLog' = keyLog]_vars
    /\ [][\A h \in Handlers : AssignHandler(h) => handleKeyPress' = h]_vars
C12_Witness ==
    /\ Len(keyLog) = 3
    /\ keyLog[1].fn = DefaultHandler
    /\ keyLog[2].fn = "f"
    /\ keyLog[3].fn = "g"

-----------------------------------------------------------------------------
(* Edits in flight *)

\* The raster that shows document doc at its declared size.
C13_RasterOf(doc) ==
    [width |-> doc.width, height |-> doc.height, pixels |-> doc.body]
C13_Stale(i) ==
    /\ MapGet(imgMap, i) # Null
    /\ fImgs[imgMap[i]].src # C13_RasterOf(GetSvgElement(i))
\* C13: every sync carries the raster of the image's document as it is when
\* the sync is issued, whatever happens to the document afterwards, and a
\* mirror's pixel source changes only when a setSrc completion for it runs,
\* to the raster that completion carries: the completion that runs last
\* decides the source, in whatever order the syncs were issued.
C13_LastCompletionWins ==
    /\ [][\A t \in pending' \ pending :
             t.url = C13_RasterOf(nodes'[sImgs'[t.sImg].svgElt])]_vars
    /\ [][\A f \in DOMAIN fImgs :
             fImgs'[f].src # fImgs[f].src =>
                 \E t \in pending \ pending' :
                     /\ t.api = "setSrc"
                     /\ t.fImg = f
                     /\ fImgs'[f].src = t.url
                     /\ fImgs'[f].rendered = t.url]_vars
\* Two edits raced: nothing is in flight and the mirror shows an edit that
\* is not the image's current document.
C13_Witness ==
    /\ pending = {}
    /\ nSyncs = 3
    /\ \E i \in DOMAIN sImgs :
          /\ C13_Stale(i)
          /\ GetSvgElement(i).body = 0
          /\ fImgs[imgMap[i]].src.pixels = 1

-----------------------------------------------------------------------------
(* Regeneration of the grid *)

\* C14 as stated: whenever a grid exists, its recorded dimensions and its
\* lines are those of the canvas's current width and height.
C14_GridMatchesCanvas ==
    grid # NoGrid =>
        /\ grid.dimensions = canvasDims
        /\ grid.lines = ConstructGroup(WithCanvasSize(grid.options,
                                                      canvasDims)).lines

C14_LayoutOfRecorded ==
    grid # NoGrid =>
        /\ grid.dimensions.width = grid.options.width
        /\ grid.dimensions.height = grid.options.height
        /\ \A k \in DOMAIN grid.lines :
              /\ grid.lines[k].x1 <= grid.dimensions.width
              /\ grid.lines[k].x2 <= grid.dimensions.width
              /\ grid.lines[k].y1 <= grid.dimensions.height
              /\ grid.lines[k].y2 <= grid.dimensions.height
\* C14, amended: the grid is regenerated by the next setGridVisibility(true)
\* after the canvas's dimensions change, not by the change: a step that
\* changes the canvas's dimensions leaves the grid and the canvas's objects
\* as they are, the grid changes only in a setGridVisibility(true) step and
\* then to a grid of the canvas's dimensions, every such step ends with a
\* grid of the canvas's dimensions, and a grid's lines lie within the
\* dimensions it records.
C14_RegeneratedOnEnable ==
    /\ [](C14_LayoutOfRecorded)
    /\ [][canvasDims' # canvasDims => grid' = grid /\ fCanvas' = fCanvas]_vars
    /\ [][grid' # grid => /\ Enable
                          /\ ~SameDimensions
                          /\ grid'.dimensions = canvasDims
                          /\ canvasDims' = canvasDims]_vars
    /\ [][Enable => grid'.dimensions = canvasDims]_vars
\* A rebuilt grid is on the canvas and the canvas has been resized since.
C14_Witness ==
    /\ nGroups = 2
    /\ GridOnCanvas
    /\ grid.dimensions # canvasDims

-----------------------------------------------------------------------------
(* Stacking of the grid *)

\* The mirrors on the canvas, bottom first.
C15_Mirrors(objs) == SelectSeq(objs, LAMBDA o : o.type = "image")
C15_Bottom == GridOnCanvas => fCanvas[1] = GroupObj(grid.group)
\* C15: whenever the grid's group is on the canvas it is the bottom-most
\* object of the canvas, and a setGridVisibility(true) step that finds no
\* group on the canvas ends with the group at the bottom and every mirror
\* that was on the canvas above it, in the order they had.
C15_GridBehindAll ==
    /\ [](C15_Bottom)
    /\ [][(Enable /\ ~GridOnCanvas) =>
            /\ fCanvas'[1] = GroupObj(grid'.group)
            /\ SubSeq(fCanvas', 2, Len(fCanvas')) = C15_Mirrors(fCanvas)]_vars
\* The grid is on the canvas under two mirrors.
C15_Witness ==
    /\ Len(fCanvas) = 3
    /\ GridOnCanvas
    /\ fCanvas[1] = GroupObj(grid.group)
    /\ fCanvas[2] = ImageObj(1)
    /\ fCanvas[3] = ImageObj(2)
    /\ nCalls = 3

-----------------------------------------------------------------------------
(* Entries of the image-to-mirror table *)

\* C16: no step deletes or changes an entry of the table: an image the
\* table maps to a mirror is mapped to that same mirror after every step,
\* remove(image) included, and a sync issued for a mapped image, after
\* remove(image) too, is a setSrc on that mirror and adds nothing to the
\* canvas.
C16_EntriesAreStable ==
    /\ [][\A i \in DOMAIN imgMap :
             i \in DOMAIN imgMap' /\ imgMap'[i] = imgMap[i]]_vars
    /\ [][\A t \in pending' \ pending :
             MapGet(imgMap, t.sImg) # Null =>
                 /\ t.api = "setSrc"
                 /\ t.fImg = imgMap[t.sImg]
                 /\ fCanvas' = fCanvas]_vars

-----------------------------------------------------------------------------
(* The Snap handle of an image *)

C17_OneHandleEach ==
    \A i, j \in DOMAIN sImgs :
        /\ GetSnap(i) \in DOMAIN nodes
        /\ GetSnap(i) = GetSnap(j) => i = j
\* C17: an image has one Snap handle, the one wrapping the element it was
\* constructed with: images have handles of their own, no step changes the
\* handle of an image, and an updateSnap step changes of the image only its
\* element, to a new element that parses back the markup of the handle
\* passed, leaves the other images alone and issues exactly one sync, for
\* that image.
C17_HandleIsFixed ==
    /\ [](C17_OneHandleEach)
    /\ [][\A i \in DOMAIN sImgs' \ DOMAIN sImgs :
             sImgs'[i].snap = sImgs'[i].svgElt]_vars
    /\ [][\A i \in DOMAIN sImgs :
             i \in DOMAIN sImgs' /\ sImgs'[i].snap = sImgs[i].snap]_vars
    /\ [][\A i \in DOMAIN sImgs, b \in Bodies :
             UpdateSnap(i, b) =>
                 /\ sImgs' = [sImgs EXCEPT ![i].svgElt = Len(nodes) + 1]
                 /\ Len(nodes') = Len(nodes) + 1
                 /\ nodes'[GetSnap(i)].body = b
                 /\ nodes'[sImgs'[i].svgElt] = nodes'[GetSnap(i)]
                 /\ nSyncs' = nSyncs + 1
                 /\ Cardinality(pending' \ pending) = 1
                 /\ \A t \in pending' \ pending : t.sImg = i]_vars
\* An image edited twice: its element is the third one created, its handle
\* still wraps the first.
C17_Witness ==
    /\ Len(sImgs) = 1
    /\ sImgs[1].snap = 1
    /\ sImgs[1].svgElt = 3
    /\ nodes[3].body = 1
    /\ nSyncs = 3

-----------------------------------------------------------------------------
(* Options of a cached grid *)

C18_Cached == grid # NoGrid /\ grid.dimensions = canvasDims
\* C18: a setGridVisibility(true, options) step that finds a grid of the
\* canvas's dimensions keeps that grid, its lines, tile size, stroke colour
\* and stroke as built, whatever the options of the call are; the options
\* of a call reach the grid only in a step that builds it.
C18_OptionsOnlyWhenBuilt ==
    /\ [][\A o \in GridOptions :
             (C18_Cached /\ SetGridVisibility(TRUE, o)) =>
                 /\ grid'.group = grid.group
                 /\ grid'.lines = grid.lines
                 /\ grid'.options = grid.options
                 /\ nGroups' = nGroups]_vars
    /\ [][\A o \in GridOptions :
             (~C18_Cached /\ SetGridVisibility(TRUE, o)) =>
                 /\ grid'.options.tileSize = o.tileSize
                 /\ grid'.options.strokeColor = o.strokeColor
                 /\ grid'.options.stroke = o.stroke
                 /\ \A k \in DOMAIN grid'.lines :
                       grid'.lines[k].stroke = OrStr(o.strokeColor, "green")]_vars
\* The one grid built so far, with red lines, is on the canvas below two
\* mirrors and has the canvas's dimensions: every further
\* setGridVisibility(true, ...) finds it cached.
C18_Witness ==
    /\ C18_Cached
    /\ GridOnCanvas
    /\ nGroups = 1
    /\ Len(fCanvas) = 3
    /\ grid.options.strokeColor = "red"
    /\ \A k \in DOMAIN grid.lines : grid.lines[k].stroke = "red"

-----------------------------------------------------------------------------
(* Loads in flight together *)

C19_Successful == { l \in DOMAIN loads : OnLoadCalls(l) # {} }
C19_ImagesOnCanvas == { k \in DOMAIN fCanvas : fCanvas[k].type = "image" }
C19_OwnHandle ==
    \A k1, k2 \in DOMAIN calls :
        (calls[k1].cb.fn = "onLoad" /\ calls[k2].cb.fn = "onLoad") =>
            /\ calls[k1].cb = OnLoadCb(sImgs[calls[k1].sImg].load)
            /\ calls[k1].sImg = calls[k2].sImg => k1 = k2
C19_DistinctMirrors ==
    \A i, j \in DOMAIN imgMap : imgMap[i] = imgMap[j] => i = j
C19_OneMirrorEach ==
    /\ \A l \in C19_Successful :
          \A k \in OnLoadCalls(l) : OneMirror(calls[k].sImg)
    /\ Cardinality(C19_ImagesOnCanvas) = Cardinality(C19_Successful)
\* C19: loads in flight together do not disturb each other, in whatever
\* order their onload events and rasterizations complete: every onLoad
\* invocation is that of the load its image was created for and no image is
\* handed out twice, the table maps distinct images to distinct mirrors, each
\* load that has called back has exactly one mirror on the canvas and the
\* canvas holds as many mirrors as loads have called back; loads that fail
\* are among them and change none of this.
C19_LoadsAreIndependent ==
    /\ [](C19_OwnHandle)
    /\ [](C19_DistinctMirrors)
    /\ [](C19_OneMirrorEach)
\* Two loads completed in the opposite order of their onload events while a
\* third had failed.
C19_Witness ==
    /\ Len(loads) = 3
    /\ \E l \in DOMAIN loads : loads[l].state = "empty"
    /\ DOMAIN imgMap = {1, 2}
    /\ imgMap[1] = 2
    /\ imgMap[2] = 1
    /\ Cardinality(C19_Successful) = 2
    /\ pending = {}

-----------------------------------------------------------------------------
(* The frame of setGridVisibility *)

C20_Images(objs) == SelectSeq(objs, LAMBDA o : o.type # "group")
\* C20: a setGridVisibility step, enabling or disabling, leaves the table,
\* the images, the mirrors and their sources, the syncs in flight, the
\* callbacks made and the canvas's dimensions as they were, and the objects
\* of the canvas other than the grid's group are the same, in the same
\* order, before and after; a setGridVisibility(false) step taken while no
\* grid has been built leaves the canvas empty of groups and builds none.
C20_OnlyTheGridChanges ==
    /\ [][(Enable \/ Disable) =>
            /\ imgMap' = imgMap
            /\ fImgs' = fImgs
            /\ sImgs' = sImgs
            /\ nodes' = nodes
            /\ pending' = pending
            /\ calls' = calls
            /\ canvasDims' = canvasDims
            /\ C20_Images(fCanvas') = C20_Images(fCanvas)]_vars
    /\ [][Disable => /\ grid' = grid
                     /\ nGroups' = nGroups
                     /\ GroupsOnCanvas' = {}]_vars
    /\ [][(grid = NoGrid /\ Disable) => fCanvas' = fCanvas]_vars
\* A grid was built and shown, then hidden, with two mirrors on the canvas:
\* the mirrors are all the canvas holds, in the order they were added.
C20_Witness ==
    /\ grid # NoGrid
    /\ ~GridOnCanvas
    /\ Len(fCanvas) = 2
    /\ fCanvas[1].type = "image"
    /\ fCanvas[2].type = "image"
    /\ fCanvas[1] # fCanvas[2]

====
